---------------------------- MODULE Spec2Model ----------------------------
(***************************************************************************)
(* The notes client (src/app/page.tsx, component Home) together with the   *)
(* REST routes it talks to (src/app/api/notes/route.ts,                     *)
(* src/app/api/notes/[id]/route.ts and the newer /api/notes route that      *)
(* accepts a client-supplied id) and the notes table.                       *)
(*                                                                         *)
(* Every fetch() of the client is a message in `net`: it is issued in      *)
(* stage "req", the route handler turns it into stage "res" in one atomic  *)
(* step on the table, and the awaiting continuation of the handler that    *)
(* issued it consumes the response.  A fetch may also reject (the request  *)
(* or the response is lost), which runs the handler's catch block.         *)
(***************************************************************************)
EXTENDS Integers, Sequences, FiniteSets, TLC

\* ------------------------------------------------------------- bounds
\* Requests the user (or the debounce timer) may start in one run.
MaxReq == 2
\* Injected faults in one run: rejected fetches and database exceptions.
MaxFault == 1
\* Edits counted in one debounce burst.
MaxBurst == 2
\* saveNote calls in one run of SpecSaves.
MaxSave == 3
\* Requests a caller of the REST routes sends in one run of SpecApi.
MaxApi == 3
\* saveNote calls in one run of SpecRetry.
MaxRetry == 2

\* What the user can type into the title input and the editor.
TitleInputs == {"a", "b"}
ContentInputs == {"x"}

\* ------------------------------------------------------------- records
\* activeNote === null, noteToDelete === null
NullId == 0
\* the id of the JSON error body {error: ...} read as a Note: undefined
UndefId == -1

Note(i, t, c, cr, up) ==
    [id |-> i, title |-> t, content |-> c, createdAt |-> cr, updatedAt |-> up]

NullNote == Note(NullId, "", "", 0, 0)
\* NextResponse.json({ error: ... }, { status: 500 }) used as a Note
ErrorBody == Note(UndefId, "", "", 0, 0)

VARIABLES
    \* --- the notes table and the server
    db,                 \* id -> row; rows of ids not in DOMAIN are absent
    now,                \* the server's clock: new Date() / defaultNow()
    minted,             \* ids minted so far by defaultRandom()
    \* --- fetches in flight
    net,                \* set of messages
    npass,              \* saveNote calls so far (names a push-then-pull round)
    ncreate,            \* createNewNote calls so far
    ndelete,            \* handleDelete calls so far
    faults,             \* faults injected so far
    \* --- React state of Home
    notes,              \* useState<Note[]>
    activeNote,         \* useState<Note | null>
    title,              \* useState('')
    content,            \* useState('')
    isLoading,          \* useState(true)
    noteToDelete,       \* useState<string | null>
    isDeleteModalOpen,  \* useState(false)
    saveTimeout,        \* saveTimeoutRef: the armed timer and its closure
    crashed,            \* render threw: the component tree is unmounted
    \* --- history
    lastOp,             \* the handler that ran last, with its arguments
    burst               \* edits of one note since the timer was last idle

vars == <<db, now, minted, net, npass, ncreate, ndelete, faults, notes, activeNote,
          title, content, isLoading, noteToDelete, isDeleteModalOpen,
          saveTimeout, crashed, lastOp, burst>>

serverVars == <<db, now, minted>>
editorVars == <<activeNote, title, content>>
modalVars == <<noteToDelete, isDeleteModalOpen>>

NoTimer == [armed |-> FALSE, noteId |-> NullId, noteTitle |-> "", noteContent |-> ""]

\* val: the response's status (of a rejected fetch: the status of the answer
\* that was lost, 0 when the request never reached its route); for saveNote,
\* the edits its timer coalesced
Op(name, i, v) == [op |-> name, id |-> i, val |-> v]
\* a handler no property looks back at
Other == Op("-", NullId, 0)

\* ------------------------------------------------------------- messages
Msg(s, k, i, t, c, p, cn, ca) ==
    [seq |-> s, kind |-> k, stage |-> "req", id |-> i, title |-> t,
     content |-> c, at |-> 0, status |-> 0, data |-> <<>>, row |-> NullNote,
     pass |-> p, cnotes |-> cn, cactive |-> ca]

Requests(k) == {m \in net : m.kind = k /\ m.stage = "req"}
Responses(k) == {m \in net : m.kind = k /\ m.stage = "res"}
InFlight(k) == {m \in net : m.kind = k}

\* ------------------------------------------------------------- the table
Rows == {db[i] : i \in DOMAIN db}

\* db.select().from(notes).orderBy(desc(notes.updatedAt)): every order of the
\* rows that is descending in updatedAt (SQL leaves the order of ties open).
RECURSIVE OrderedDesc(_)
OrderedDesc(rows) ==
    IF rows = {} THEN {<<>>}
    ELSE LET top == {r \in rows : \A q \in rows : q.updatedAt <= r.updatedAt}
         IN UNION {{<<r>> \o rest : rest \in OrderedDesc(rows \ {r})} : r \in top}

\* title: title || 'Untitled'
OrUntitled(t) == IF t = "" THEN "Untitled" ELSE t


\* ------------------------------------------------------------- the routes
\* The handler's answer replaces the request in flight.
Respond(m, st, rw, dt) ==
    net' = (net \ {m}) \cup {[m EXCEPT !.stage = "res", !.status = st,
                                        !.row = rw, !.data = dt]}

\* The catch block of a route: the database call threw, nothing was written.
RouteThrows(m) ==
    /\ faults < MaxFault
    /\ faults' = faults + 1
    /\ Respond(m, 500, ErrorBody, <<>>)
    /\ UNCHANGED serverVars

\* GET /api/notes
RouteGET(m) ==
    /\ m \in Requests("GET")
    /\ \E all \in OrderedDesc(Rows) : Respond(m, 200, NullNote, all)
    /\ UNCHANGED <<serverVars, faults>>

\* The row POST /api/notes inserts: id: id || undefined (defaultRandom()),
\* title || 'Untitled', content || '', updatedAt ? new Date(updatedAt) : new Date(),
\* createdAt defaultNow().
NewRow(m) ==
    Note(IF m.id = NullId THEN minted + 1 ELSE m.id,
         OrUntitled(m.title), m.content, now + 1,
         IF m.at = 0 THEN now + 1 ELSE m.at)

\* POST /api/notes: db.insert(notes).values(...).returning().  The id is the
\* primary key: inserting an id the table holds throws, and the catch block
\* answers 500.
RoutePOST(m) ==
    /\ m \in Requests("POST")
    /\ LET row == NewRow(m)
       IN IF row.id \in DOMAIN db
          THEN /\ Respond(m, 500, ErrorBody, <<>>)
               /\ UNCHANGED serverVars
          ELSE /\ db' = [i \in DOMAIN db \cup {row.id} |->
                            IF i = row.id THEN row ELSE db[i]]
               /\ now' = now + 1
               /\ minted' = IF m.id = NullId THEN minted + 1 ELSE minted
               /\ Respond(m, 200, row, <<>>)
    /\ UNCHANGED faults

\* PUT /api/notes/[id]: db.update(notes).set({title, content, updatedAt: new
\* Date()}).where(eq(notes.id, id)); no row updated -> 404.  An id that is no
\* uuid ("undefined") makes the query throw -> 500.
RoutePUT(m) ==
    /\ m \in Requests("PUT")
    /\ IF m.id \in DOMAIN db
       THEN LET row == [db[m.id] EXCEPT !.title = m.title, !.content = m.content,
                                        !.updatedAt = now + 1]
            IN /\ db' = [db EXCEPT ![m.id] = row]
               /\ now' = now + 1
               /\ Respond(m, 200, row, <<>>)
       ELSE /\ Respond(m, IF m.id = UndefId THEN 500 ELSE 404, ErrorBody, <<>>)
            /\ UNCHANGED <<db, now>>
    /\ UNCHANGED <<minted, faults>>

\* DELETE /api/notes/[id]: db.delete(notes).where(eq(notes.id, id)); no row
\* deleted -> 404.
RouteDELETE(m) ==
    /\ m \in Requests("DELETE")
    /\ IF m.id \in DOMAIN db
       THEN /\ db' = [i \in DOMAIN db \ {m.id} |-> db[i]]
            /\ Respond(m, 200, NullNote, <<>>)
       ELSE /\ Respond(m, IF m.id = UndefId THEN 500 ELSE 404, ErrorBody, <<>>)
            /\ UNCHANGED db
    /\ UNCHANGED <<now, minted, faults>>

\* A route whose database call throws (connection lost, ...): its catch block.
RouteError(m) ==
    /\ m \in net /\ m.stage = "req"
    /\ RouteThrows(m)


\* ------------------------------------------------------------- Home: helpers
\* useEffect(..., [isLoading, notes.length, activeNote]): runs after a render in
\* which a dependency changed, and calls createNewNote() when
\* !isLoading && notes.length === 0 && !activeNote.
EffectCreates ==
    /\ ~crashed'
    /\ <<isLoading, Len(notes), activeNote>> # <<isLoading', Len(notes'), activeNote'>>
    /\ ~isLoading' /\ Len(notes') = 0 /\ activeNote'.id = NullId

\* The fetch createNewNote() issues.
CreateRequest(s) == Msg(s, "POST", NullId, "Untitled", "", 0, <<>>, NullId)

\* net after this handler took `gone` out of flight, followed by the effect
\* above.
Network(gone) ==
    IF EffectCreates
    THEN /\ net' = (net \ gone) \cup {CreateRequest(ncreate + 1)}
         /\ ncreate' = ncreate + 1
    ELSE /\ net' = net \ gone
         /\ ncreate' = ncreate

\* Calls started so far: each is one request of the user or of the timer.
Started == npass + ncreate + ndelete

\* selectNote(note)
SelectedTitle(note) == IF note.title = "Untitled" THEN "" ELSE note.title

Select(note) ==
    /\ activeNote' = note
    /\ title' = SelectedTitle(note)
    /\ content' = note.content

\* debouncedSave that leaves an armed timer alone (no clearTimeout, no new
\* setTimeout): the first edit of a burst is the one written.
DebouncedSaveLeading(noteId, noteTitle, noteContent) ==
    /\ saveTimeout' = IF saveTimeout.armed THEN saveTimeout
                      ELSE [armed |-> TRUE, noteId |-> noteId,
                            noteTitle |-> noteTitle, noteContent |-> noteContent]
    /\ burst' = IF saveTimeout.armed /\ saveTimeout.noteId = noteId
                THEN (IF burst < MaxBurst THEN burst + 1 ELSE burst)
                ELSE 1

\* debouncedSave(noteId, noteTitle, noteContent): clearTimeout, then setTimeout
DebouncedSave(noteId, noteTitle, noteContent) ==
    /\ saveTimeout' = [armed |-> TRUE, noteId |-> noteId, noteTitle |-> noteTitle,
                       noteContent |-> noteContent]
    /\ burst' = IF saveTimeout.armed /\ saveTimeout.noteId = noteId
                THEN (IF burst < MaxBurst THEN burst + 1 ELSE burst)
                ELSE 1

\* The user can use the page: it is mounted and no modal overlay covers it.
PageUsable == ~crashed /\ ~isDeleteModalOpen

\* ------------------------------------------------------------- fetchNotes
\* The entries of a list that carry an id
Entries(list, noteId) == {list[i] : i \in {j \in 1..Len(list) : list[j].id = noteId}}

\* fetchNotes that also reloads the editor from the fetched copy of the
\* active note.
FetchNotesDoneResync(m) ==
    /\ ~crashed
    /\ m \in Responses("GET")
    /\ IF m.status = 200
       THEN notes' = m.data /\ crashed' = FALSE
       ELSE notes' = notes /\ crashed' = TRUE
    /\ isLoading' = FALSE
    /\ IF m.status = 200 /\ Entries(m.data, activeNote.id) # {}
       THEN Select(CHOOSE r \in Entries(m.data, activeNote.id) : TRUE)
       ELSE UNCHANGED editorVars
    /\ Network({m})
    /\ lastOp' = Op("fetchNotes", NullId, m.status)
    /\ UNCHANGED <<serverVars, modalVars, saveTimeout, burst, npass, ndelete, faults>>

\* fetchNotes that only adds the fetched notes it does not hold yet.
FetchNotesDoneKeepLocal(m) ==
    /\ ~crashed
    /\ m \in Responses("GET")
    /\ IF m.status = 200
       THEN notes' = notes \o SelectSeq(m.data, LAMBDA r : Entries(notes, r.id) = {})
            /\ crashed' = FALSE
       ELSE notes' = notes /\ crashed' = TRUE
    /\ isLoading' = FALSE
    /\ UNCHANGED editorVars
    /\ Network({m})
    /\ lastOp' = Op("fetchNotes", NullId, m.status)
    /\ UNCHANGED <<serverVars, modalVars, saveTimeout, burst, npass, ndelete, faults>>

\* fetchNotes, after await fetch('/api/notes') and res.json(): setNotes(data).
\* A 500 answers {error: ...}: notes is no array and the next render throws.
FetchNotesDone(m) ==
    /\ ~crashed
    /\ m \in Responses("GET")
    /\ IF m.status = 200
       THEN notes' = m.data /\ crashed' = FALSE
       ELSE notes' = notes /\ crashed' = TRUE
    /\ isLoading' = FALSE
    /\ UNCHANGED editorVars
    /\ Network({m})
    /\ lastOp' = Op("fetchNotes", NullId, m.status)
    /\ UNCHANGED <<serverVars, modalVars, saveTimeout, burst, npass, ndelete, faults>>

\* fetchNotes when the fetch rejects: catch logs, finally setIsLoading(false).
FetchNotesCatch(m) ==
    /\ ~crashed
    /\ m \in InFlight("GET")
    /\ faults < MaxFault
    /\ faults' = faults + 1
    /\ isLoading' = FALSE
    /\ UNCHANGED <<notes, crashed, editorVars>>
    /\ Network({m})
    /\ lastOp' = Other
    /\ UNCHANGED <<serverVars, modalVars, saveTimeout, burst, npass, ndelete>>

\* ------------------------------------------------------------- editing
\* selectNote(note), from a click on an entry of the sidebar list
SelectNote(i) ==
    /\ PageUsable
    /\ i \in 1..Len(notes)
    /\ Select(notes[i])
    /\ lastOp' = Other
    /\ UNCHANGED <<serverVars, net, npass, ncreate, ndelete, faults, notes, isLoading,
                   modalVars, saveTimeout, crashed, burst>>

\* handleTitleChange: the title input is rendered only with an active note
HandleTitleChange(newTitle) ==
    /\ PageUsable
    /\ activeNote.id # NullId
    /\ newTitle \in TitleInputs /\ newTitle # title
    /\ title' = newTitle
    /\ activeNote' = [activeNote EXCEPT !.title = newTitle]
    /\ content' = content
    /\ DebouncedSave(activeNote.id, newTitle, content)
    /\ lastOp' = Other
    /\ UNCHANGED <<serverVars, net, npass, ncreate, ndelete, faults, notes, isLoading,
                   modalVars, crashed>>

\* handleContentInput: newContent is the editor's innerHTML
HandleContentInput(newContent) ==
    /\ PageUsable
    /\ activeNote.id # NullId
    /\ newContent \in ContentInputs
    /\ content' = newContent
    /\ UNCHANGED <<activeNote, title>>
    /\ DebouncedSave(activeNote.id, title, newContent)
    /\ lastOp' = Other
    /\ UNCHANGED <<serverVars, net, npass, ncreate, ndelete, faults, notes, isLoading,
                   modalVars, crashed>>

\* ------------------------------------------------------------- saveNote
\* The body of the PUT saveNote sends.
SaveBody(p, noteId, noteTitle, noteContent) ==
    Msg(p, "PUT", noteId, OrUntitled(noteTitle), noteContent, p, <<>>, NullId)

\* saveNote that does not await its PUT before it calls fetchNotes().
SaveNoteEager ==
    /\ ~crashed
    /\ saveTimeout.armed
    /\ npass' = npass + 1
    /\ net' = net \cup {SaveBody(npass + 1, saveTimeout.noteId,
                                 saveTimeout.noteTitle, saveTimeout.noteContent),
                        Msg(npass + 1, "GET", NullId, "", "", npass + 1, <<>>, NullId)}
    /\ saveTimeout' = NoTimer
    /\ burst' = 0
    /\ lastOp' = Op("saveNote", saveTimeout.noteId, burst)
    /\ UNCHANGED <<serverVars, ncreate, ndelete, faults, notes, editorVars,
                   isLoading, modalVars, crashed>>

\* The debounce timer fires: saveNote(noteId, noteTitle, noteContent) up to its
\* await fetch(..., {method: 'PUT'}).
SaveNote ==
    /\ ~crashed
    /\ saveTimeout.armed
    /\ npass' = npass + 1
    /\ net' = net \cup {SaveBody(npass + 1, saveTimeout.noteId,
                                 saveTimeout.noteTitle, saveTimeout.noteContent)}
    /\ saveTimeout' = NoTimer
    /\ burst' = 0
    /\ lastOp' = Op("saveNote", saveTimeout.noteId, burst)
    /\ UNCHANGED <<serverVars, ncreate, ndelete, faults, notes, editorVars,
                   isLoading, modalVars, crashed>>

\* saveNote that, once its PUT is answered, cancels the pending timer.
SaveNoteDoneClears(m) ==
    /\ ~crashed
    /\ m \in Responses("PUT")
    /\ net' = (net \ {m}) \cup {Msg(m.pass, "GET", NullId, "", "", m.pass, <<>>, NullId)}
    /\ saveTimeout' = NoTimer
    /\ burst' = 0
    /\ lastOp' = Op("saveNoteDone", m.id, m.status)
    /\ UNCHANGED <<serverVars, npass, ncreate, ndelete, faults, notes, editorVars,
                   isLoading, modalVars, crashed>>

\* saveNote after the await: the response (of any status) is not looked at and
\* fetchNotes() is called.
SaveNoteDone(m) ==
    /\ ~crashed
    /\ m \in Responses("PUT")
    /\ net' = (net \ {m}) \cup {Msg(m.pass, "GET", NullId, "", "", m.pass, <<>>, NullId)}
    /\ lastOp' = Op("saveNoteDone", m.id, m.status)
    /\ UNCHANGED <<serverVars, npass, ncreate, ndelete, faults, notes, editorVars,
                   isLoading, modalVars, saveTimeout, crashed, burst>>

\* saveNote when the fetch rejects: catch logs; fetchNotes() is not called.
SaveNoteCatch(m) ==
    /\ ~crashed
    /\ m \in InFlight("PUT")
    /\ faults < MaxFault
    /\ faults' = faults + 1
    /\ net' = net \ {m}
    /\ lastOp' = Op("saveNoteCatch", m.id, m.status)
    /\ UNCHANGED <<serverVars, npass, ncreate, ndelete, notes, editorVars, isLoading,
                   modalVars, saveTimeout, crashed, burst>>


\* ------------------------------------------------------------- createNewNote
\* createNewNote up to its await fetch('/api/notes', {method: 'POST'}), from a
\* click on a "new note" button.
CreateNewNote ==
    /\ PageUsable
    /\ Started < MaxReq
    /\ net' = net \cup {CreateRequest(ncreate + 1)}
    /\ ncreate' = ncreate + 1
    /\ lastOp' = Other
    /\ UNCHANGED <<serverVars, npass, ndelete, faults, notes, editorVars, isLoading,
                   modalVars, saveTimeout, crashed, burst>>

\* createNewNote after the await: newNote = await res.json() (the error body
\* of a 500 too), setNotes(prev => [newNote, ...prev]), selectNote(newNote).
CreateNewNoteDone(m) ==
    /\ ~crashed
    /\ m \in Responses("POST")
    /\ notes' = <<m.row>> \o notes
    /\ Select(m.row)
    /\ net' = net \ {m}
    /\ lastOp' = Op("createNewNoteDone", m.row.id, m.status)
    /\ UNCHANGED <<serverVars, npass, ncreate, ndelete, faults, isLoading, modalVars,
                   saveTimeout, crashed, burst>>

\* createNewNote when the fetch rejects: catch logs.
CreateNewNoteCatch(m) ==
    /\ ~crashed
    /\ m \in InFlight("POST")
    /\ faults < MaxFault
    /\ faults' = faults + 1
    /\ net' = net \ {m}
    /\ lastOp' = Other
    /\ UNCHANGED <<serverVars, npass, ncreate, ndelete, notes, editorVars, isLoading,
                   modalVars, saveTimeout, crashed, burst>>

\* ------------------------------------------------------------- handleDelete
\* The ids confirmDelete can be called with: an entry's menu, or the editor's
\* delete button.
Deletable ==
    {notes[i].id : i \in 1..Len(notes)} \cup
    (IF activeNote.id = NullId THEN {} ELSE {activeNote.id})

\* confirmDelete(noteId); an undefined id is stored as a falsy noteToDelete.
\* (The modal is followed only while a handleDelete may still start.)
ConfirmDelete(noteId) ==
    /\ PageUsable
    /\ Started < MaxReq
    /\ noteId \in Deletable
    /\ noteToDelete' = IF noteId = UndefId THEN NullId ELSE noteId
    /\ isDeleteModalOpen' = TRUE
    /\ lastOp' = Other
    /\ UNCHANGED <<serverVars, net, npass, ncreate, ndelete, faults, notes, editorVars,
                   isLoading, saveTimeout, crashed, burst>>

\* The modal's onClose: setIsDeleteModalOpen(false).  noteToDelete keeps its
\* value in the code; it is read only by handleDelete, which runs from the open
\* modal, and the modal is opened only by confirmDelete, which sets it anew: the
\* value left behind is never read, and the model forgets it.
CloseModal ==
    /\ ~crashed
    /\ isDeleteModalOpen
    /\ isDeleteModalOpen' = FALSE
    /\ noteToDelete' = NullId
    /\ lastOp' = Other
    /\ UNCHANGED <<serverVars, net, npass, ncreate, ndelete, faults, notes, editorVars,
                   isLoading, saveTimeout, crashed, burst>>

\* handleDelete up to its await fetch(..., {method: 'DELETE'}), from the modal's
\* confirm button.  The continuation keeps this render's notes and activeNote.
HandleDelete ==
    /\ ~crashed
    /\ isDeleteModalOpen
    /\ noteToDelete # NullId
    /\ Started < MaxReq
    /\ net' = net \cup {Msg(ndelete + 1, "DELETE", noteToDelete, "", "", 0, notes,
                            activeNote.id)}
    /\ ndelete' = ndelete + 1
    /\ lastOp' = Other
    /\ UNCHANGED <<serverVars, npass, ncreate, faults, notes, editorVars, isLoading,
                   modalVars, saveTimeout, crashed, burst>>

\* notes.filter(n => n.id !== noteToDelete)
RECURSIVE Without(_, _)
Without(list, noteId) ==
    IF list = <<>> THEN <<>>
    ELSE IF Head(list).id = noteId THEN Without(Tail(list), noteId)
         ELSE <<Head(list)>> \o Without(Tail(list), noteId)

\* handleDelete that sets the list without filtering the deleted note out.
HandleDeleteDoneUnfiltered(m) ==
    /\ ~crashed
    /\ m \in Responses("DELETE")
    /\ notes' = m.cnotes
    /\ UNCHANGED editorVars
    /\ isDeleteModalOpen' = FALSE
    /\ noteToDelete' = NullId
    /\ UNCHANGED <<isLoading, crashed>>
    /\ Network({m})
    /\ lastOp' = Op("handleDeleteDone", m.id, m.status)
    /\ UNCHANGED <<serverVars, npass, ndelete, faults, saveTimeout, burst>>

\* handleDelete after the await: the response (of any status) is not looked at.
HandleDeleteDone(m) ==
    /\ ~crashed
    /\ m \in Responses("DELETE")
    /\ LET remaining == Without(m.cnotes, m.id)
       IN /\ notes' = remaining
          /\ IF m.cactive = m.id
             THEN IF Len(remaining) > 0
                  THEN Select(remaining[1])
                  ELSE activeNote' = NullNote /\ title' = "" /\ content' = ""
             ELSE UNCHANGED editorVars
    /\ isDeleteModalOpen' = FALSE
    /\ noteToDelete' = NullId
    /\ UNCHANGED <<isLoading, crashed>>
    /\ Network({m})
    /\ lastOp' = Op("handleDeleteDone", m.id, m.status)
    /\ UNCHANGED <<serverVars, npass, ndelete, faults, saveTimeout, burst>>

\* handleDelete when the fetch rejects: catch logs, finally closes the modal.
HandleDeleteCatch(m) ==
    /\ ~crashed
    /\ m \in InFlight("DELETE")
    /\ faults < MaxFault
    /\ faults' = faults + 1
    /\ isDeleteModalOpen' = FALSE
    /\ noteToDelete' = NullId
    /\ net' = net \ {m}
    /\ lastOp' = Op("handleDeleteCatch", m.id, 0)
    /\ UNCHANGED <<serverVars, npass, ncreate, ndelete, notes, editorVars, isLoading,
                   saveTimeout, crashed, burst>>

\* ------------------------------------------------------------- specification
\* Home is mounted: useEffect(() => { fetchNotes(); }, []) has issued the first
\* fetch.  The table is empty or holds a note of an earlier session.
Seeded == [i \in {1, 2} |-> Note(i, IF i = 1 THEN "a" ELSE "Untitled", "", i, i)]
Empty == [i \in {} |-> NullNote]

\* The state of Home at its first render.
Mounted ==
    /\ npass = 0
    /\ ncreate = 0
    /\ ndelete = 0
    /\ faults = 0
    /\ notes = <<>>
    /\ activeNote = NullNote
    /\ title = ""
    /\ content = ""
    /\ isLoading = TRUE
    /\ noteToDelete = NullId
    /\ isDeleteModalOpen = FALSE
    /\ saveTimeout = NoTimer
    /\ crashed = FALSE
    /\ lastOp = Other
    /\ burst = 0

Init ==
    /\ db \in {Empty, Seeded}
    /\ now = Cardinality(DOMAIN db)
    /\ minted = Cardinality(DOMAIN db)
    /\ net = {Msg(0, "GET", NullId, "", "", 0, <<>>, NullId)}
    /\ Mounted

clientVars == <<npass, ncreate, ndelete, notes, activeNote, title, content, isLoading,
                noteToDelete, isDeleteModalOpen, saveTimeout, crashed, burst>>

\* The route a request is dispatched to.
Route(m) ==
    \/ RouteGET(m)
    \/ RoutePOST(m)
    \/ RoutePUT(m)
    \/ RouteDELETE(m)

\* A route handler runs on the server; its database call may throw.
Server ==
    \E m \in net :
        /\ Route(m) \/ RouteError(m)
        /\ lastOp' = Other
        /\ UNCHANGED clientVars

\* A route handler runs on the server and its database calls succeed.
ServerOk ==
    \E m \in net :
        /\ Route(m)
        /\ lastOp' = Other
        /\ UNCHANGED clientVars

Next ==
    \/ Server
    \/ \E m \in net : FetchNotesDone(m)
    \/ \E m \in net : FetchNotesCatch(m)
    \/ \E i \in 1..Len(notes) : SelectNote(i)
    \/ \E t \in TitleInputs : HandleTitleChange(t)
    \/ \E c \in ContentInputs : HandleContentInput(c)
    \/ Started < MaxReq /\ SaveNote
    \/ \E m \in net : SaveNoteDone(m)
    \/ \E m \in net : SaveNoteCatch(m)
    \/ CreateNewNote
    \/ \E m \in net : CreateNewNoteDone(m)
    \/ \E m \in net : CreateNewNoteCatch(m)
    \/ \E n \in Deletable : ConfirmDelete(n)
    \/ CloseModal
    \/ HandleDelete
    \/ \E m \in net : HandleDeleteDone(m)
    \/ \E m \in net : HandleDeleteCatch(m)

Spec == Init /\ [][Next]_vars

\* ------------------------------------------------------------- saves only
\* Home over a table of one note, with up to MaxSave saveNote calls, no
\* createNewNote or handleDelete call and no rejected fetch.
Single == [i \in {1} |-> Note(1, "a", "x", 1, 1)]

InitSaves ==
    /\ db = Single /\ now = 1 /\ minted = 1
    /\ net = {Msg(0, "GET", NullId, "", "", 0, <<>>, NullId)}
    /\ Mounted

NextSaves ==
    \/ Server
    \/ \E m \in net : FetchNotesDone(m)
    \/ \E i \in 1..Len(notes) : SelectNote(i)
    \/ \E t \in TitleInputs : HandleTitleChange(t)
    \/ npass < MaxSave /\ SaveNote
    \/ \E m \in net : SaveNoteDone(m)

SpecSaves == InitSaves /\ [][NextSaves]_vars

\* ------------------------------------------------------------- saves that fail
\* Home over a table of one note, where a PUT may be lost.  What the code
\* schedules by itself happens eventually: a route answers a request that
\* reached it, an armed timer fires, the continuation of an answered fetch
\* runs.  Nothing obliges the user to act or a fetch to be lost.
NextRetry ==
    \/ ServerOk
    \/ \E m \in net : FetchNotesDone(m)
    \/ \E i \in 1..Len(notes) : SelectNote(i)
    \/ \E t \in TitleInputs : HandleTitleChange(t)
    \/ npass < MaxRetry /\ SaveNote
    \/ \E m \in net : SaveNoteDone(m)
    \/ \E m \in net : SaveNoteCatch(m)

FairRetry ==
    /\ WF_vars(ServerOk)
    /\ WF_vars(\E m \in net : FetchNotesDone(m))
    /\ WF_vars(npass < MaxRetry /\ SaveNote)
    /\ WF_vars(\E m \in net : SaveNoteDone(m))

SpecRetry == InitSaves /\ [][NextRetry]_vars /\ FairRetry

\* ------------------------------------------------------------- delete and timer
\* Home after the first fetch over a table of two notes, one of them selected
\* and its title just edited: the debounce timer is armed for it.  The user
\* deletes that note, and the timer fires after handleDelete has sent its
\* DELETE.
InitRace ==
    /\ db = Seeded /\ now = 2 /\ minted = 2
    /\ net = {}
    /\ npass = 0 /\ ncreate = 0 /\ ndelete = 0 /\ faults = 0
    /\ notes \in OrderedDesc({Seeded[i] : i \in DOMAIN Seeded})
    /\ \E n \in DOMAIN Seeded :
          /\ activeNote = [Seeded[n] EXCEPT !.title = "b"]
          /\ saveTimeout = [armed |-> TRUE, noteId |-> n, noteTitle |-> "b",
                            noteContent |-> Seeded[n].content]
          /\ content = Seeded[n].content
    /\ title = "b"
    /\ isLoading = FALSE
    /\ noteToDelete = NullId
    /\ isDeleteModalOpen = FALSE
    /\ crashed = FALSE
    /\ lastOp = Other
    /\ burst = 1

NextRace ==
    \/ ServerOk
    \/ \E m \in net : FetchNotesDone(m)
    \/ saveTimeout.armed /\ ConfirmDelete(saveTimeout.noteId)
    \/ CloseModal
    \/ HandleDelete
    \/ \E m \in net : HandleDeleteDone(m)
    \/ ndelete > 0 /\ Started < MaxReq /\ SaveNote
    \/ \E m \in net : SaveNoteDone(m)

SpecRace == InitRace /\ [][NextRace]_vars

\* ------------------------------------------------------------- the routes alone
\* The REST routes called by any client: each request names a note by an id
\* of the caller's choosing (POST: or by none, and the server mints one).
ClientIds == {101, 102}

\* A caller sends a request (npass numbers the requests here).
ApiSend(kind, noteId, noteTitle, noteContent, updatedAt) ==
    /\ npass < MaxApi
    /\ npass' = npass + 1
    /\ net' = net \cup {[Msg(npass + 1, kind, noteId, noteTitle, noteContent, 0,
                              <<>>, NullId) EXCEPT !.at = updatedAt]}
    /\ lastOp' = Other
    /\ UNCHANGED <<serverVars, ncreate, ndelete, faults, notes, editorVars, isLoading,
                   modalVars, saveTimeout, crashed, burst>>

\* The caller reads the response.
ApiDone(m) ==
    /\ m \in net /\ m.stage = "res"
    /\ net' = net \ {m}
    /\ lastOp' = Op(m.kind, m.id, m.status)
    /\ UNCHANGED <<serverVars, npass, ncreate, ndelete, faults, notes, editorVars,
                   isLoading, modalVars, saveTimeout, crashed, burst>>

InitApi ==
    /\ db = Empty /\ now = 0 /\ minted = 0
    /\ net = {}
    /\ Mounted

NextApi ==
    \/ ServerOk
    \/ \E i \in ClientIds \cup {NullId}, t \in {"", "a"}, at \in {0, 1} :
          ApiSend("POST", i, t, "x", at)
    \/ \E i \in ClientIds : ApiSend("PUT", i, "b", "", 0)
    \/ \E i \in ClientIds : ApiSend("DELETE", i, "", "", 0)
    \/ ApiSend("GET", NullId, "", "", 0)
    \/ \E m \in net : ApiDone(m)

SpecApi == InitApi /\ [][NextApi]_vars


\* ------------------------------------------------------------- properties
NoteIds(list) == {list[i].id : i \in 1..Len(list)}

\* A note is dirty while an edit of it waits to be written: the debounce timer
\* is armed for it, or a PUT of it is in flight (not yet acknowledged to Home).
Dirty(noteId) ==
    \/ saveTimeout.armed /\ saveTimeout.noteId = noteId
    \/ \E m \in InFlight("PUT") : m.id = noteId

\* Where Home holds the edited title and content of a note: the editor (when
\* the note is the active one), the armed timer's closure, the PUTs in flight.
LocalEdit(noteId) ==
    [editor |-> IF activeNote.id = noteId THEN <<title, content>> ELSE <<>>,
     timer |-> IF saveTimeout.armed /\ saveTimeout.noteId = noteId
               THEN <<saveTimeout.noteTitle, saveTimeout.noteContent>> ELSE <<>>,
     sent |-> {<<m.pass, m.title, m.content>> : m \in {x \in InFlight("PUT") : x.id = noteId}}]

\* The messages of the push-then-pull rounds in progress: saveNote's PUT, then
\* its fetchNotes (the fetchNotes of the mount, round 0, is left out).
PassMessages == {m \in InFlight("PUT") \cup InFlight("GET") : m.pass > 0}

PassesInProgress == {m.pass : m \in PassMessages}

\* The last handler was a push that failed: the fetch rejected, or the
\* response was not ok.
PushFailed ==
    \/ lastOp.op = "saveNoteCatch"
    \/ lastOp.op = "saveNoteDone" /\ lastOp.val # 200

\* This step is an edit: it arms the timer or counts one more edit of the burst.
EditStep == saveTimeout'.armed /\ (saveTimeout' # saveTimeout \/ burst' # burst)

\* C1: no lost edits under pull.  When fetchNotes applies a list that holds a
\* version of a dirty note (of any updatedAt), the edited title and content of
\* that note, wherever Home holds them, are unchanged.
C1_NoLostEditsUnderPull ==
    [][lastOp'.op = "fetchNotes" =>
         \A m \in net \ net' : \A i \in 1..Len(m.data) :
             Dirty(m.data[i].id) => LocalEdit(m.data[i].id)' = LocalEdit(m.data[i].id)]_vars

\* A pull has just applied a newer remote version of the dirty active note
\* whose title is not the edited one.
C1_Witness ==
    /\ lastOp.op = "fetchNotes"
    /\ Dirty(activeNote.id)
    /\ \E r \in Entries(notes, activeNote.id) :
          r.updatedAt > activeNote.updatedAt /\ r.title # OrUntitled(title)

\* C2: at most one reconciliation pass is in progress at any time.
C2_AtMostOnePass == Cardinality(PassesInProgress) <= 1

\* C3: triggers that arrive while a pass is in progress produce one follow-up
\* pass in all: no more than one pass has been started since a pass that is
\* still in progress.
C3_TriggersCoalesced ==
    \A m \in PassMessages : npass - m.pass <= 1

\* C4: debounce coalescing.  An edit writes nothing and re-arms the single
\* timer with the title and content of that edit; the timer's firing sends
\* exactly one PUT, carrying what the timer was last armed with, starts one
\* round and leaves the timer idle.
C4_DebounceCoalescing ==
    [][/\ EditStep =>
            /\ net' = net /\ npass' = npass
            /\ saveTimeout' = [armed |-> TRUE, noteId |-> activeNote.id,
                               noteTitle |-> title', noteContent |-> content']
       /\ lastOp'.op = "saveNote" =>
            /\ saveTimeout.armed /\ ~saveTimeout'.armed
            /\ npass' = npass + 1
            /\ net' = net \cup {SaveBody(npass', saveTimeout.noteId,
                                         saveTimeout.noteTitle, saveTimeout.noteContent)}
            /\ SaveBody(npass', saveTimeout.noteId, saveTimeout.noteTitle,
                        saveTimeout.noteContent) \notin net]_vars

\* The timer has just fired after a burst of at least two edits of the active
\* note, and the one PUT in flight carries the editor's title and content.
C4_Witness ==
    /\ lastOp.op = "saveNote" /\ lastOp.val >= 2
    /\ lastOp.id = activeNote.id
    /\ \E m \in Requests("PUT") :
          /\ m.pass = npass /\ m.id = lastOp.id
          /\ m.title = OrUntitled(title) /\ m.content = content

\* C5: create/replace with a client-supplied id is an upsert: every POST that
\* names its id is answered ok.
C5_IdempotentCreate ==
    \A m \in Responses("POST") : m.id # NullId => m.status = 200

\* C6: tombstone convergence.  Once handleDelete has seen the remote delete
\* answered ok or not found, the note is in neither the local list nor the
\* table.
C6_TombstoneConvergence ==
    (lastOp.op = "handleDeleteDone" /\ lastOp.val \in {200, 404}) =>
        (lastOp.id \notin NoteIds(notes) /\ lastOp.id \notin DOMAIN db)

\* A delete of a listed note was answered ok and another note is left.
C6_Witness ==
    /\ lastOp.op = "handleDeleteDone" /\ lastOp.val = 200
    /\ Len(notes) > 0

\* C7: a note whose remote delete failed (a server error, a rejected fetch)
\* and which the table still holds stays in the local list.
C7_FailedDeleteKeepsNote ==
    (/\ \/ lastOp.op = "handleDeleteDone" /\ lastOp.val \notin {200, 404}
        \/ lastOp.op = "handleDeleteCatch"
     /\ lastOp.id \in DOMAIN db) => lastOp.id \in NoteIds(notes)

\* C8: last-write-wins on clean records.  When fetchNotes applies a list, a
\* fetched note that has no local entry, or whose local entry is clean and
\* older, is afterwards the one local entry of its id, with the remote title,
\* content and timestamps; a clean note stays clean.
C8_LastWriteWinsOnClean ==
    [][lastOp'.op = "fetchNotes" =>
         \A m \in net \ net' : \A i \in 1..Len(m.data) :
             LET r == m.data[i]
             IN (\/ Entries(notes, r.id) = {}
                 \/ /\ ~Dirty(r.id)
                    /\ \A l \in Entries(notes, r.id) : r.updatedAt > l.updatedAt)
                => /\ Entries(notes', r.id) = {r}
                   /\ Cardinality({j \in 1..Len(notes') : notes'[j].id = r.id}) = 1
                   /\ ~Dirty(r.id) => ~Dirty(r.id)']_vars

\* A pull has just replaced the clean active note's entry by a newer remote
\* version with another content than the one selected before.
C8_Witness ==
    /\ lastOp.op = "fetchNotes"
    /\ activeNote.id # NullId /\ ~Dirty(activeNote.id)
    /\ \E r \in Entries(notes, activeNote.id) :
          r.updatedAt > activeNote.updatedAt /\ r.content # activeNote.content

\* C9: partial failure isolation.  When the push of one note fails while
\* another note is dirty, the failed note stays dirty.
C9_PartialFailureIsolation ==
    (PushFailed /\ \E other \in DOMAIN db : other # lastOp.id /\ Dirty(other))
        => Dirty(lastOp.id)

\* C10: a failed or rejected push leaves the note dirty.
C10_FailedPushStaysDirty == PushFailed => Dirty(lastOp.id)

\* C11: a pass started while the remote is unreachable (the request never
\* reaches its route) leaves the note it was to push dirty.
C11_OfflinePassKeepsDirty ==
    (lastOp.op = "saveNoteCatch" /\ lastOp.val = 0)
        => Dirty(lastOp.id)

\* C12: convergence after reconnect.  When the push of the active note has
\* failed and nothing of it is left pending, then, unless the user edits or
\* selects again, eventually the table holds the title and content of the
\* editor.
C12_ConvergenceAfterReconnect ==
    \A i \in DOMAIN Single : \A t \in TitleInputs \cup {""} :
        (PushFailed /\ lastOp.id = i /\ ~Dirty(i) /\ activeNote.id = i /\ title = t)
            ~> \/ title # t
               \/ activeNote.id # i
               \/ /\ i \in DOMAIN db
                  /\ db[i].title = OrUntitled(t)
                  /\ db[i].content = content

\* C13: the id of a created note is the one the client assigned: the row a
\* create request leaves in the table carries the id the request named.
C13_ClientAssignedId ==
    \A m \in Responses("POST") : m.status = 200 => m.row.id = m.id

\* C14: the local list holds at most one note per id.
C14_OneRecordPerId ==
    \A i, j \in 1..Len(notes) :
        (notes[i].id = notes[j].id /\ notes[i].id # UndefId) => i = j

\* C15: within one round the push precedes the pull.  The GET of a round is
\* issued only by the step that takes the answer of the round's PUT, when no
\* PUT of the round is in flight any more and the table already holds what an
\* accepted PUT wrote (or something newer); a row of the table never goes back
\* in time, so the pull reads the push or something newer.
C15_PushPrecedesPull ==
    [][/\ \A g \in net' \ net :
            (g.kind = "GET" /\ g.stage = "req") =>
                /\ \E m \in net \ net' :
                      /\ m.kind = "PUT" /\ m.stage = "res" /\ m.pass = g.pass
                      /\ (m.status = 200 /\ m.id \in DOMAIN db) =>
                             db[m.id].updatedAt >= m.row.updatedAt
                /\ \A x \in net' : ~(x.kind = "PUT" /\ x.pass = g.pass)
       /\ \A i \in DOMAIN db \cap DOMAIN db' : db'[i].updatedAt >= db[i].updatedAt]_vars

\* The list a round's GET read holds the active note as the round's PUT wrote
\* it: newer than the selected copy, with the editor's title.
C15_Witness ==
    \E g \in Responses("GET") :
        /\ g.pass > 0 /\ g.status = 200
        /\ \E r \in Entries(g.data, activeNote.id) :
              r.updatedAt > activeNote.updatedAt /\ r.title = OrUntitled(title)

C17_NoReplaceByOlder ==
    [][lastOp'.op = "fetchNotes" =>
         \A m \in net \ net' : \A k \in 1..Len(m.data) :
             LET r == m.data[k]
             IN \A l \in Entries(notes, r.id) :
                    (~Dirty(r.id) /\ r.updatedAt <= l.updatedAt)
                        => l \in Entries(notes', r.id)]_vars

\* C18: a deleted note never reappears in the list: fetchNotes adds to the
\* list no note that the list did not hold and the table does not hold (ids
\* are never reused, so such a note was deleted).
C18_DeletedNeverReappears ==
    [][lastOp'.op = "fetchNotes" =>
         \A i \in NoteIds(notes') \ NoteIds(notes) : i \in DOMAIN db]_vars

\* C19: a local mutation leaves the note dirty, moves its updatedAt forward
\* and keeps its createdAt.
C19_UpdateRefreshesUpdatedAt ==
    [][EditStep =>
         /\ Dirty(activeNote.id)'
         /\ activeNote'.createdAt = activeNote.createdAt
         /\ activeNote'.updatedAt > activeNote.updatedAt]_vars

\* C20: an edit of another note does not discard a buffered edit: a step that
\* re-arms the timer for another note sends the write the timer was holding.
C20_BufferedEditNotDropped ==
    [][(saveTimeout.armed /\ saveTimeout'.armed
           /\ saveTimeout'.noteId # saveTimeout.noteId) =>
         \E m \in net' \ net :
             /\ m.kind = "PUT" /\ m.id = saveTimeout.noteId
             /\ m.title = OrUntitled(saveTimeout.noteTitle)
             /\ m.content = saveTimeout.noteContent]_vars

\* C21: writes of one note reach the table in the order they were issued:
\* when two PUTs of a note have both been answered ok and no other write of
\* the note is pending, the row holds the title and content of the PUT that
\* was issued later.
C21_WritesInOrder ==
    \A m1, m2 \in Responses("PUT") :
        (/\ m1.id = m2.id /\ m1.pass < m2.pass
         /\ m1.status = 200 /\ m2.status = 200
         /\ Requests("PUT") = {}
         /\ ~(saveTimeout.armed /\ saveTimeout.noteId = m2.id)
         /\ m2.id \in DOMAIN db)
            => (db[m2.id].title = m2.title /\ db[m2.id].content = m2.content)

\* C22: a note deleted while a debounced write of it was pending is not
\* brought back by the timer: once the DELETE has been acknowledged and the
\* timer has fired, the table lacks the note and the list does not show it.
C22_DeletedNotBroughtBack ==
    LET gone == DOMAIN Seeded \ DOMAIN db
    IN (ndelete > 0 /\ InFlight("DELETE") = {} /\ npass > 0)
           => (gone # {} /\ gone \cap NoteIds(notes) = {})

=============================================================================
